---- MODULE Spec2Model ----
(***************************************************************************)
(* A model of package z85 of xformerfhs/hashvalue: the function Encode of  *)
(* src/z85/implementation.go, run statement by statement on the inputs a   *)
(* caller hands it.                                                        *)
(*                                                                         *)
(* Bytes and characters are their numeric codes (0..255).  A Go string or  *)
(* byte slice is a sequence of such codes; the zero byte of a freshly made *)
(* buffer is 0.                                                            *)
(*                                                                         *)
(* A uint32 is kept as two 16-bit limbs [hi, lo] (the value is             *)
(* hi*2^16 + lo): TLC's integers end at 2^31-1, below the largest uint32.  *)
(* The operators Div32, Mul32 and Sub32 are Go's /, * and - on uint32,     *)
(* the last two modulo 2^32.                                               *)
(*                                                                         *)
(* Go's int is the platform's word; the model is the 32-bit build          *)
(* (math.MaxInt = 2^31-1), the one whose MaxInt TLC can hold.              *)
(***************************************************************************)
EXTENDS Integers, Sequences, FiniteSets, TLC

\* ------------------------------------------------------------ bounds ----

\* The largest number of whole 4-byte chunks of an enumerated input.
MaxChunks == 2

\* The largest number of whole chunks of the two inputs of a caller that
\* encodes A, B and A ++ B.
MaxPairChunks == 1

\* The largest number of whole groups in an input of a goroutine.
MaxConcChunks == 1

\* ------------------------------------------- constants of package z85 ----

\* implementation.go:42
codeSize == 85

\* implementation.go:45
byteChunkSize == 4

\* implementation.go:48, byteChunkSize - 1
byteChunkMask == 3

\* implementation.go:51
byteChunkShift == 2

\* implementation.go:54
encodedChunkSize == 5

\* math.MaxInt of a build whose int has 32 bits (implementation.go:66).
MaxInt == 2147483647

\* A faulty table: the next-to-last character repeats the last one.
encodeTableTypo ==
    << 48, 49, 50, 51, 52, 53, 54, 55, 56, 57,
       97, 98, 99, 100, 101, 102, 103, 104, 105, 106, 107, 108, 109,
       110, 111, 112, 113, 114, 115, 116, 117, 118, 119, 120, 121, 122,
       65, 66, 67, 68, 69, 70, 71, 72, 73, 74, 75, 76, 77,
       78, 79, 80, 81, 82, 83, 84, 85, 86, 87, 88, 89, 90,
       46, 45, 58, 43, 61, 94, 33, 47, 42, 63, 38, 60, 62,
       40, 41, 91, 93, 123, 125, 64, 37, 35, 35 >>

\* The initial value of the package variable encodeTable
\* (implementation.go:57), character by character:
\* 0123456789abcdefghijklmnopqrstuvwxyzABCDEFGHIJKLMNOPQRSTUVWXYZ.-:+=^!/*?&<>()[]{}@%$#
encodeTableInit ==
    << 48, 49, 50, 51, 52, 53, 54, 55, 56, 57,
       97, 98, 99, 100, 101, 102, 103, 104, 105, 106, 107, 108, 109,
       110, 111, 112, 113, 114, 115, 116, 117, 118, 119, 120, 121, 122,
       65, 66, 67, 68, 69, 70, 71, 72, 73, 74, 75, 76, 77,
       78, 79, 80, 81, 82, 83, 84, 85, 86, 87, 88, 89, 90,
       46, 45, 58, 43, 61, 94, 33, 47, 42, 63, 38, 60, 62,
       40, 41, 91, 93, 123, 125, 64, 37, 36, 35 >>

\* ------------------------------------------------------------ errors ----

\* The value nil of type error.
NoError == [kind |-> "nil"]

\* errors.go:45
ErrTooLong == [kind |-> "ErrTooLong"]

\* A faulty construction: the mask in place of the chunk size.
ErrInvalidLengthOfMask(n) ==
    [kind |-> "ErrInvalidLength", value |-> (n - 1) % 256]

\* errors.go:48, a byte-valued error type: the value is the chunk size.
ErrInvalidLength(n) == [kind |-> "ErrInvalidLength", value |-> n % 256]

\* errors.go:40, the text before the verb %d.
invalidLengthMessage == "input length is not a multiple of "

DecimalDigits == << "0", "1", "2", "3", "4", "5", "6", "7", "8", "9" >>

RECURSIVE FormatDecimal(_)
\* fmt's verb %d on an unsigned integer: its decimal digits, no padding.
FormatDecimal(n) ==
    IF n < 10 THEN DecimalDigits[n + 1]
    ELSE FormatDecimal(n \div 10) \o DecimalDigits[(n % 10) + 1]

\* The method Error of ErrInvalidLength (errors.go:51-53), and of the
\* value made by errors.New (errors.go:45).
ErrorText(e) ==
    CASE e.kind = "ErrInvalidLength" ->
             invalidLengthMessage \o FormatDecimal(e.value)
      [] e.kind = "ErrTooLong" -> "input is too long"

\* ---------------------------------------------------- uint32 arithmetic ----

W16 == 2 ^ 16

\* A faulty read: the four bytes in little-endian order.
BigEndianUint32Reversed(b) ==
    [hi |-> b[4] * 256 + b[3], lo |-> b[2] * 256 + b[1]]

\* binary.BigEndian.Uint32(b): b[0]<<24 | b[1]<<16 | b[2]<<8 | b[3]
\* (sequences count from 1).
BigEndianUint32(b) ==
    [hi |-> b[1] * 256 + b[2], lo |-> b[3] * 256 + b[4]]

\* a / d on uint32, for a divisor 0 < d < 2^15 (schoolbook division).
Div32(a, d) ==
    LET r == a.hi % d
        t == r * W16 + a.lo
    IN  [hi |-> a.hi \div d, lo |-> t \div d]

\* a * m on uint32 (modulo 2^32), for a factor 0 <= m < 2^15.
Mul32(a, m) ==
    LET l == a.lo * m
        h == a.hi * m + (l \div W16)
    IN  [hi |-> h % W16, lo |-> l % W16]

\* a - b on uint32 (modulo 2^32).
Sub32(a, b) ==
    LET l == a.lo - b.lo
        borrow == IF l < 0 THEN 1 ELSE 0
        h == a.hi - b.hi - borrow
    IN  [hi |-> h % W16, lo |-> l % W16]

\* A uint32 used as an index is in range of a sequence of length n < 2^16.
IndexInRange(a, n) == a.hi = 0 /\ a.lo < n

Zero32 == [hi |-> 0, lo |-> 0]

\* --------------------------------------------------------------- slices ----

\* A byte slice the caller holds: its length and its contents.  The
\* contents of a slice longer than any enumerated one are not represented
\* (bytes = << >>); Encode is only given those whose length it rejects
\* before reading a byte.
Slice(bytes) == [len |-> Len(bytes), bytes |-> bytes]

LongSlice(n) == [len |-> n, bytes |-> << >>]

\* s[n:] and s[:n] of a sequence s.
From(s, n) == SubSeq(s, n + 1, Len(s))

Upto(s, n) == SubSeq(s, 1, n)

\* make([]byte, n)
MakeBytes(n) == [k \in 1..n |-> 0]

\* ------------------------------------------------------------- inputs ----

\* clearTheOne of z85_test.go:44.
clearTheOne == << 134, 79, 210, 111, 181, 89, 247, 91 >>

\* The 4-byte groups the enumerated inputs are made of: the two groups of
\* clearTheOne, the smallest and the largest group, groups that differ in
\* one byte position, groups around a digit carry (84, 85), and 85^4 =
\* 0x031C84B1, the smallest group whose first base-85 digit is not 0.
Chunks ==
    { << 134, 79, 210, 111 >>, << 181, 89, 247, 91 >>,
      << 0, 0, 0, 0 >>, << 255, 255, 255, 255 >>,
      << 0, 0, 0, 1 >>, << 0, 0, 1, 0 >>, << 0, 1, 0, 0 >>, << 1, 0, 0, 0 >>,
      << 0, 0, 0, 84 >>, << 0, 0, 0, 85 >>, << 3, 28, 132, 177 >> }

\* The incomplete group after the last whole one: none, or 1..3 bytes.
Tails ==
    { << >>, << 79 >>, << 210, 111 >>, << 210, 111, 181 >>, << 0 >>,
      << 255, 255, 255 >> }

RECURSIVE ChunkSeqs(_, _)
\* The concatenations of at most n groups of cs.
ChunkSeqs(cs, n) ==
    IF n = 0 THEN { << >> }
    ELSE LET shorter == ChunkSeqs(cs, n - 1)
         IN  shorter \cup { s \o c : s \in shorter, c \in cs }

\* Lengths around floor(MaxInt / 5), and the largest length.
LongLens ==
    { MaxInt \div encodedChunkSize + k : k \in 0..4 } \cup { MaxInt - 3, MaxInt }

\* The inputs of a single call.
Inputs ==
    { Slice(s \o t) : s \in ChunkSeqs(Chunks, MaxChunks), t \in Tails }
        \cup { LongSlice(n) : n \in LongLens }

\* The groups and the inputs of a caller that encodes A, B and A ++ B.
PairChunks ==
    { << 134, 79, 210, 111 >>, << 181, 89, 247, 91 >>, << 0, 0, 0, 0 >>,
      << 0, 0, 0, 85 >>, << 3, 28, 132, 177 >>, << 255, 255, 255, 255 >> }

PairInputs ==
    { Slice(s \o t) : s \in ChunkSeqs(PairChunks, MaxPairChunks),
                      t \in { << >>, << 79 >> } }

\* -------------------------------------------------------------- state ----

VARIABLES
    encodeTable,   \* the package variable encodeTable
    calls,         \* the caller: the arguments of the calls still to make
    results,       \* the caller: argument and return values of finished calls
    arg,           \* the caller's slice handed to the running call
    pc,            \* the position of the running call in Encode
    source,        \* Encode's parameter: its view of the caller's bytes
    sourceLen,     \* local sourceLen
    result,        \* local result: the buffer made at line 74
    destination,   \* local destination: the offset of its start in result
    chunkCount,    \* local chunkCount
    chunkIndex,    \* local chunkIndex
    value,         \* local value
    i,             \* local i
    trips,         \* the running call's loop rounds so far: outer, inner
    parked,        \* the goroutines that are not running: their calls' state
    stdout,        \* the bytes written to os.Stdout
    stderr,        \* the messages written to os.Stderr
    cli            \* the command-line program: its flags and its position

vars == << encodeTable, calls, results, arg, pc, source, sourceLen, result,
           destination, chunkCount, chunkIndex, value, i, trips, parked,
           stdout, stderr, cli >>

\* What no step of Encode touches: the other goroutines, the standard
\* streams and the command-line program.
env == << parked, stdout, stderr, cli >>

NoTrips == [outer |-> 0, inner |-> 0]

\* The command-line program has not been started.
NoCli == [pc |-> "off"]

locals == << source, sourceLen, result, destination, chunkCount, chunkIndex,
             value, i >>

\* The locals of a call that has not started.
NoLocals ==
    /\ source = << >>
    /\ sourceLen = 0
    /\ result = << >>
    /\ destination = 0
    /\ chunkCount = 0
    /\ chunkIndex = 0
    /\ value = Zero32
    /\ i = 0

InitWith(cs) ==
    /\ encodeTable = encodeTableInit
    /\ calls = cs
    /\ results = << >>
    /\ arg = Slice(<< >>)
    /\ pc = "idle"
    /\ NoLocals
    /\ trips = NoTrips
    /\ parked = << >>
    /\ stdout = << >>
    /\ stderr = << >>
    /\ cli = NoCli

\* One call of Encode on one of the enumerated inputs.
Init == \E x \in Inputs : InitWith(<< x >>)

\* ---------------------------------------------------- Encode, by line ----

\* A faulty first check: >= in place of >.
IsTooLongInclusive(n) == n >= MaxInt \div encodedChunkSize

\* sourceLen > math.MaxInt/encodedChunkSize (line 66)
IsTooLong(n) == n > MaxInt \div encodedChunkSize

\* Faulty second checks: a mask of 1, and a zero length refused.
IsInvalidLengthOdd(n) == n % 2 # 0

IsInvalidLengthOrEmpty(n) == n = 0 \/ n % (byteChunkMask + 1) # 0

\* (sourceLen & byteChunkMask) != 0 (line 70)
IsInvalidLength(n) == n % (byteChunkMask + 1) # 0

\* A faulty size: one byte more, for a terminator.
ResultSizeWithTerminator(n) == (n * encodedChunkSize) \div 4 + 1

\* (sourceLen*encodedChunkSize)>>2 (line 74); line 66 keeps the product
\* at or below MaxInt.
ResultSize(n) == (n * encodedChunkSize) \div 4

\* A faulty index: the quotient is not scaled back by the code size.
DigitIndexUnscaled(v, vDiv) == Sub32(v, vDiv)

\* value-(valueDiv*codeSize) (line 83), on uint32.
DigitIndex(v, vDiv) == Sub32(v, Mul32(vDiv, codeSize))

\* A faulty start of the inner loop: four digits per group.
FirstDigitPositionShort == byteChunkSize - 1

\* i := byteChunkSize (line 81): the position of the first digit written.
FirstDigitPosition == byteChunkSize

\* A faulty step: the view of the source is not advanced.
NextSourceStuck(s) == s

\* source[byteChunkSize:] (line 88).
NextSource(s) == From(s, byteChunkSize)

\* The caller calls Encode with the next argument; line 64.
Call ==
    /\ pc = "idle"
    /\ calls # << >>
    /\ arg' = Head(calls)
    /\ calls' = Tail(calls)
    /\ source' = Head(calls).bytes
    /\ sourceLen' = Head(calls).len
    /\ pc' = "checkTooLong"
    /\ trips' = NoTrips
    /\ UNCHANGED << encodeTable, results, result, destination, chunkCount,
                    chunkIndex, value, i >>
    /\ UNCHANGED env

\* A faulty return: the table is rotated by one place for the next call.
ReturnWithTableRotated(str, err) ==
    /\ results' = Append(results, [arg |-> arg, str |-> str, err |-> err])
    /\ encodeTable' = Tail(encodeTable) \o << Head(encodeTable) >>
    /\ pc' = "idle"
    /\ source' = << >>
    /\ sourceLen' = 0
    /\ result' = << >>
    /\ destination' = 0
    /\ chunkCount' = 0
    /\ chunkIndex' = 0
    /\ value' = Zero32
    /\ i' = 0
    /\ UNCHANGED << calls, arg, trips >>

\* The return of Encode: the caller records the pair returned, and the
\* locals of the call are gone.
ReturnWith(str, err) ==
    /\ results' = Append(results, [arg |-> arg, str |-> str, err |-> err])
    /\ pc' = "idle"
    /\ source' = << >>
    /\ sourceLen' = 0
    /\ result' = << >>
    /\ destination' = 0
    /\ chunkCount' = 0
    /\ chunkIndex' = 0
    /\ value' = Zero32
    /\ i' = 0
    /\ UNCHANGED << encodeTable, calls, arg, trips >>

\* A run-time panic (index or slice bounds out of range).
Panic ==
    /\ pc' = "panic"
    /\ UNCHANGED << encodeTable, calls, results, arg, locals, trips >>

\* Lines 66-68.
CheckTooLong ==
    /\ pc = "checkTooLong"
    /\ IF IsTooLong(sourceLen)
       THEN ReturnWith(<< >>, ErrTooLong)
       ELSE /\ pc' = "checkLength"
            /\ UNCHANGED << encodeTable, calls, results, arg, locals, trips >>
    /\ UNCHANGED env

\* A faulty second check: the buffer is made first and returned with the
\* error.
CheckLengthAfterMake ==
    /\ pc = "checkLength"
    /\ IF IsInvalidLength(sourceLen)
       THEN ReturnWith(MakeBytes(ResultSize(sourceLen)),
                       ErrInvalidLength(byteChunkSize))
       ELSE /\ pc' = "alloc"
            /\ UNCHANGED << encodeTable, calls, results, arg, locals, trips >>
    /\ UNCHANGED env

\* Lines 70-72.
CheckLength ==
    /\ pc = "checkLength"
    /\ IF IsInvalidLength(sourceLen)
       THEN ReturnWith(<< >>, ErrInvalidLength(byteChunkSize))
       ELSE /\ pc' = "alloc"
            /\ UNCHANGED << encodeTable, calls, results, arg, locals, trips >>
    /\ UNCHANGED env

\* Lines 74-76, and the initialisation chunkIndex := 0 of line 77.
Alloc ==
    /\ pc = "alloc"
    /\ result' = MakeBytes(ResultSize(sourceLen))
    /\ chunkCount' = sourceLen \div (2 ^ byteChunkShift)
    /\ destination' = 0
    /\ chunkIndex' = 0
    /\ pc' = "loop"
    /\ UNCHANGED << encodeTable, calls, results, arg, source, sourceLen,
                    value, i, trips >>
    /\ UNCHANGED env

\* Line 77, the loop condition, and line 91 when it fails.
LoopExit ==
    /\ pc = "loop"
    /\ ~ (chunkIndex < chunkCount)
    /\ ReturnWith(result, NoError)
    /\ UNCHANGED env

\* Line 77, the loop condition holds; line 78, and i := byteChunkSize of
\* line 81.  source[:4] panics on a view of fewer than 4 bytes.
ReadChunk ==
    /\ pc = "loop"
    /\ chunkIndex < chunkCount
    /\ IF Len(source) < byteChunkSize
       THEN Panic
       ELSE /\ value' = BigEndianUint32(Upto(source, byteChunkSize))
            /\ i' = FirstDigitPosition
            /\ pc' = "digit"
            /\ trips' = [trips EXCEPT !.outer = @ + 1]
            /\ UNCHANGED << encodeTable, calls, results, arg, source,
                            sourceLen, result, destination, chunkCount,
                            chunkIndex >>
    /\ UNCHANGED env

\* Lines 81-85, one round of the inner loop: i >= 0 holds.  destination[i]
\* is result[destination + i]; either index panics when out of range.
Digit ==
    /\ pc = "digit"
    /\ i >= 0
    /\ LET valueDiv == Div32(value, codeSize)
           index == DigitIndex(value, valueDiv)
       IN  IF \/ ~ IndexInRange(index, Len(encodeTable))
              \/ destination + i >= Len(result)
           THEN Panic
           ELSE /\ result' = [result EXCEPT ![destination + i + 1] =
                                  encodeTable[index.lo + 1]]
                /\ value' = valueDiv
                /\ i' = i - 1
                /\ trips' = [trips EXCEPT !.inner = @ + 1]
                /\ UNCHANGED << encodeTable, calls, results, arg, pc, source,
                                sourceLen, destination, chunkCount,
                                chunkIndex >>
    /\ UNCHANGED env

\* A faulty step: the caller's slice is advanced with the local view, as
\* if source were passed by reference.
AdvanceCallerSlice ==
    /\ pc = "digit"
    /\ i < 0
    /\ destination' = destination + encodedChunkSize
    /\ source' = NextSource(source)
    /\ arg' = Slice(NextSource(source))
    /\ chunkIndex' = chunkIndex + 1
    /\ pc' = "loop"
    /\ UNCHANGED << encodeTable, calls, results, sourceLen, result,
                    chunkCount, value, i, trips >>
    /\ UNCHANGED env

\* The inner loop ends (i < 0); lines 87-88 and chunkIndex++ of line 77.
\* Either re-slicing panics when the view is shorter than the step.
Advance ==
    /\ pc = "digit"
    /\ i < 0
    /\ IF \/ Len(result) - destination < encodedChunkSize
          \/ Len(source) < byteChunkSize
       THEN Panic
       ELSE /\ destination' = destination + encodedChunkSize
            /\ source' = NextSource(source)
            /\ chunkIndex' = chunkIndex + 1
            /\ pc' = "loop"
            /\ UNCHANGED << encodeTable, calls, results, arg, sourceLen,
                            result, chunkCount, value, i, trips >>
    /\ UNCHANGED env

Next ==
    \/ Call
    \/ CheckTooLong
    \/ CheckLength
    \/ Alloc
    \/ ReadChunk
    \/ Digit
    \/ Advance
    \/ LoopExit

Spec == Init /\ [][Next]_vars

\* A caller that encodes A, then B, then A ++ B.
InitPair ==
    \E a \in PairInputs, b \in PairInputs :
        InitWith(<< a, b, Slice(a.bytes \o b.bytes) >>)

SpecPair == InitPair /\ [][Next]_vars

\* A caller that encodes A, then X, then A again.
InitTwice ==
    \E a \in PairInputs \cup { LongSlice(n) : n \in LongLens },
       x \in PairInputs :
        InitWith(<< a, x, a >>)

SpecTwice == InitTwice /\ [][Next]_vars

\* The groups and the inputs of two goroutines that call Encode.
ConcChunks == { << 134, 79, 210, 111 >>, << 0, 0, 0, 85 >> }

ConcInputs ==
    { Slice(s \o t) : s \in ChunkSeqs(ConcChunks, MaxConcChunks),
                      t \in { << >>, << 79 >> } }

\* What a goroutine inside Encode owns: its argument, its position and its
\* locals.
Context ==
    [arg |-> arg, pc |-> pc, source |-> source, sourceLen |-> sourceLen,
     result |-> result, destination |-> destination,
     chunkCount |-> chunkCount, chunkIndex |-> chunkIndex, value |-> value,
     i |-> i, trips |-> trips]

\* A goroutine that has entered Encode with the argument a (line 64).
Entered(a) ==
    [arg |-> a, pc |-> "checkTooLong", source |-> a.bytes,
     sourceLen |-> a.len, result |-> << >>, destination |-> 0,
     chunkCount |-> 0, chunkIndex |-> 0, value |-> Zero32, i |-> 0,
     trips |-> NoTrips]

\* The scheduler puts the goroutine c on the processor.
Resume(c) ==
    /\ arg' = c.arg
    /\ pc' = c.pc
    /\ source' = c.source
    /\ sourceLen' = c.sourceLen
    /\ result' = c.result
    /\ destination' = c.destination
    /\ chunkCount' = c.chunkCount
    /\ chunkIndex' = c.chunkIndex
    /\ value' = c.value
    /\ i' = c.i
    /\ trips' = c.trips

\* The caller starts two goroutines, one for each of its next two arguments.
Spawn ==
    /\ pc = "idle"
    /\ parked = << >>
    /\ Len(calls) >= 2
    /\ Resume(Entered(calls[1]))
    /\ parked' = << Entered(calls[2]) >>
    /\ calls' = Tail(Tail(calls))
    /\ UNCHANGED << encodeTable, results, stdout, stderr, cli >>

\* A faulty switch: the local value is one word that the goroutines share.
YieldSharedValue ==
    /\ parked # << >>
    /\ pc # "panic"
    /\ Resume([parked[1] EXCEPT !.value = value])
    /\ parked' = IF pc = "idle" THEN << >> ELSE << Context >>
    /\ UNCHANGED << encodeTable, calls, results, stdout, stderr, cli >>

\* The scheduler switches between the goroutines, between any two
\* statements of Encode; a goroutine that has returned is gone.
Yield ==
    /\ parked # << >>
    /\ pc # "panic"
    /\ Resume(parked[1])
    /\ parked' = IF pc = "idle" THEN << >> ELSE << Context >>
    /\ UNCHANGED << encodeTable, calls, results, stdout, stderr, cli >>

NextConc ==
    \/ Next
    \/ Spawn
    \/ Yield

\* A caller with the arguments A, B, A, B: it makes calls one after the
\* other, or two at a time in two goroutines.
InitConc ==
    \E a \in ConcInputs, b \in ConcInputs : InitWith(<< a, b, a, b >>)

SpecConc == InitConc /\ [][NextConc]_vars

\* The return codes of realMain (main.go:48-52).
rcOK == 0
rcParameterError == 1
rcProcessingError == 2

\* The program has accepted its command line and is about to print a value
\* in Z85.
Printing == [pc |-> "print", rc |-> rcOK]

\* Z85Encoder.PrintEncoded: the call of Encode at line 48 is the steps of
\* Next; this is the rest, once Encode has returned.  The error is assigned
\* to the blank identifier, the string is written with a line feed, and
\* the method returns nothing to its caller.
PrintEncoded ==
    /\ cli.pc = "print"
    /\ pc = "idle"
    /\ calls = << >>
    /\ results # << >>
    /\ stdout' = stdout \o results[Len(results)].str \o << 10 >>
    /\ cli' = [cli EXCEPT !.pc = "printed"]
    /\ UNCHANGED << encodeTable, calls, results, arg, pc, locals, trips,
                    parked, stderr >>

NextPrint ==
    \/ Next
    \/ PrintEncoded

\* PrintEncoded(value) on one of the enumerated values.
InitPrint ==
    /\ \E x \in Inputs : calls = << x >>
    /\ encodeTable = encodeTableInit
    /\ results = << >>
    /\ arg = Slice(<< >>)
    /\ pc = "idle"
    /\ NoLocals
    /\ trips = NoTrips
    /\ parked = << >>
    /\ stdout = << >>
    /\ stderr = << >>
    /\ cli = Printing

SpecPrint == InitPrint /\ [][NextPrint]_vars

\* ------------------------------------------------------- hex printing ----

\* byte arithmetic: a + b modulo 2^8.
Add8(a, b) == (a + b) % 256

\* lowerOffset = 'a' - 'A' (hex_encoding.go:45).
lowerOffset == 97 - 65

\* characterOffset = 'A' - '9' - 1 (hex_encoding.go:48).
characterOffset == 65 - 57 - 1

\* newLine (part_001:50).
newLine == << 10 >>

\* NewHexEncoder (hex_encoding.go:55-66); separator and prefix are the
\* bytes of the strings given.
NewHexEncoder(separator, prefix, useLower) ==
    [kind |-> "hex",
     separator |-> separator,
     prefix |-> prefix,
     caseOffset |-> IF useLower THEN Add8(characterOffset, lowerOffset)
                    ELSE characterOffset]

\* A faulty comparison: 9 is taken for a letter.
printHexCharFromNine(b, caseOffset) ==
    IF b >= 9 THEN Add8(Add8(b, 48), caseOffset) ELSE Add8(b, 48)

\* printHexChar (hex_encoding.go:105-119): the byte written for a nibble.
printHexChar(b, caseOffset) ==
    IF b > 9 THEN Add8(Add8(b, 48), caseOffset) ELSE Add8(b, 48)

\* printHexByte (hex_encoding.go:94-102): the two bytes written, b >> 4
\* first, then b & 0x0f.
printHexByte(b, caseOffset) ==
    << printHexChar(b \div 16, caseOffset), printHexChar(b % 16, caseOffset) >>

RECURSIVE hexLoopTrailingSeparator(_, _, _)
\* A faulty loop: the separator is written after every byte.
hexLoopTrailingSeparator(hashValue, e, useSeparator) ==
    IF hashValue = << >> THEN << >>
    ELSE (IF Len(e.prefix) # 0 THEN e.prefix ELSE << >>)
             \o printHexByte(Head(hashValue), e.caseOffset)
             \o e.separator
             \o hexLoopTrailingSeparator(Tail(hashValue), e, TRUE)

RECURSIVE hexLoop(_, _, _)
\* The loop of HexEncoder.PrintEncoded (hex_encoding.go:76-88): what it
\* writes for the rest hashValue of the value, useSeparator being the
\* loop's flag.
hexLoop(hashValue, e, useSeparator) ==
    IF hashValue = << >> THEN << >>
    ELSE (IF useSeparator THEN e.separator ELSE << >>)
             \o (IF Len(e.prefix) # 0 THEN e.prefix ELSE << >>)
             \o printHexByte(Head(hashValue), e.caseOffset)
             \o hexLoop(Tail(hashValue), e, TRUE)

\* The values, separators and prefixes of the hex printer: every single
\* byte, the empty value and some longer ones; ":" and ", "; "0x".
HexValues ==
    { << >>, << 154, 250, 99 >>, << 0, 255 >>, << 10, 9, 171, 205 >> }
        \cup { << b >> : b \in 0..255 }

HexSeparators == { << >>, << 58 >>, << 44, 32 >> }

HexPrefixes == { << >>, << 48, 120 >> }

\* The program builds the printer for the hex encoding.
HexNew ==
    /\ cli.pc = "hexNew"
    /\ cli' = [cli EXCEPT
                   !.printer = NewHexEncoder(cli.separator, cli.prefix,
                                             cli.useLower),
                   !.pc = "hexPrint"]
    /\ UNCHANGED << encodeTable, calls, results, arg, pc, locals, trips,
                    parked, stdout, stderr >>

\* HexEncoder.PrintEncoded (hex_encoding.go:71-91).
HexPrintEncoded ==
    /\ cli.pc = "hexPrint"
    /\ stdout' = stdout \o hexLoop(cli.hashValue, cli.printer, FALSE)
                     \o newLine
    /\ cli' = [cli EXCEPT !.pc = "printed"]
    /\ UNCHANGED << encodeTable, calls, results, arg, pc, locals, trips,
                    parked, stderr >>

NextHex ==
    \/ HexNew
    \/ HexPrintEncoded

InitHex ==
    /\ \E v \in HexValues, s \in HexSeparators, p \in HexPrefixes,
          l \in BOOLEAN :
           cli = [pc |-> "hexNew", hashValue |-> v, separator |-> s,
                  prefix |-> p, useLower |-> l, printer |-> << >>,
                  rc |-> 0]
    /\ encodeTable = encodeTableInit
    /\ calls = << >>
    /\ results = << >>
    /\ arg = Slice(<< >>)
    /\ pc = "idle"
    /\ NoLocals
    /\ trips = NoTrips
    /\ parked = << >>
    /\ stdout = << >>
    /\ stderr = << >>

SpecHex == InitHex /\ [][NextHex]_vars

\* strings.ToLower(strings.TrimSpace(s)), on the strings enumerated.
ToLowerTrimSpace(s) ==
    CASE s = " Z85 " -> "z85"
      [] s = "MD5" -> "md5"
      [] s = " md5 " -> "md5"
      [] s = "sha3-256 " -> "sha3-256"
      [] OTHER -> s

\* ------------------------------------------------------- hash factory ----

\* The bytes of the strings the program compares or writes.
StringBytes(s) ==
    CASE s = "md5" -> << 109, 100, 53 >>
      [] s = "sha1" -> << 115, 104, 97, 49 >>
      [] s = "sha2-224" -> << 115, 104, 97, 50, 45, 50, 50, 52 >>
      [] s = "sha2-256" -> << 115, 104, 97, 50, 45, 50, 53, 54 >>
      [] s = "sha2-384" -> << 115, 104, 97, 50, 45, 51, 56, 52 >>
      [] s = "sha2-512" -> << 115, 104, 97, 50, 45, 53, 49, 50 >>
      [] s = "sha2-512_224" -> << 115, 104, 97, 50, 45, 53, 49, 50, 95, 50, 50, 52 >>
      [] s = "sha2-512_256" -> << 115, 104, 97, 50, 45, 53, 49, 50, 95, 50, 53, 54 >>
      [] s = "sha3-224" -> << 115, 104, 97, 51, 45, 50, 50, 52 >>
      [] s = "sha3-256" -> << 115, 104, 97, 51, 45, 50, 53, 54 >>
      [] s = "sha3-384" -> << 115, 104, 97, 51, 45, 51, 56, 52 >>
      [] s = "sha3-512" -> << 115, 104, 97, 51, 45, 53, 49, 50 >>
      [] s = "blake2b-256" -> << 98, 108, 97, 107, 101, 50, 98, 45, 50, 53, 54 >>
      [] s = "blake2b-384" -> << 98, 108, 97, 107, 101, 50, 98, 45, 51, 56, 52 >>
      [] s = "blake2b-512" -> << 98, 108, 97, 107, 101, 50, 98, 45, 53, 49, 50 >>
      [] s = "blake2s-256" -> << 98, 108, 97, 107, 101, 50, 115, 45, 50, 53, 54 >>
      [] s = "blake2s-128" -> << 98, 108, 97, 107, 101, 50, 115, 45, 49, 50, 56 >>
      [] s = "" -> << >>
      [] s = "x" -> << 120 >>
      [] s = ":" -> << 58 >>
      [] s = "123456789" -> << 49, 50, 51, 52, 53, 54, 55, 56, 57 >>
      [] s = "Hash  : " -> << 72, 97, 115, 104, 32, 32, 58, 32 >>
      [] s = "Hex   : " -> << 72, 101, 120, 32, 32, 32, 58, 32 >>
      [] s = "Base32: " -> << 66, 97, 115, 101, 51, 50, 58, 32 >>
      [] s = "Base64: " -> << 66, 97, 115, 101, 54, 52, 58, 32 >>

RECURSIVE LessBytes(_, _)
\* a < b for byte strings, as Go compares strings.
LessBytes(a, b) ==
    IF a = << >> THEN b # << >>
    ELSE IF b = << >> THEN FALSE
    ELSE IF Head(a) # Head(b) THEN Head(a) < Head(b)
    ELSE LessBytes(Tail(a), Tail(b))

\* A hash object: its algorithm and hash.Hash.Size(), the length of the
\* digest in bytes.
NewHash(algorithm, size) == [algorithm |-> algorithm, size |-> size]

\* No hash object.
nilHash == [algorithm |-> "", size |-> 0]

\* A faulty registry: blake2s-128 is still registered.
initAssignmentsWithBlake2s128 ==
    << << "md5", NewHash("md5", 16) >>,
       << "sha1", NewHash("sha1", 20) >>,
       << "sha2-224", NewHash("sha2-224", 28) >>,
       << "sha2-256", NewHash("sha2-256", 32) >>,
       << "sha2-384", NewHash("sha2-384", 48) >>,
       << "sha2-512", NewHash("sha2-512", 64) >>,
       << "sha2-512_224", NewHash("sha2-512_224", 28) >>,
       << "sha2-512_256", NewHash("sha2-512_256", 32) >>,
       << "sha3-224", NewHash("sha3-224", 28) >>,
       << "sha3-256", NewHash("sha3-256", 32) >>,
       << "sha3-384", NewHash("sha3-384", 48) >>,
       << "sha3-512", NewHash("sha3-512", 64) >>,
       << "blake2b-256", NewHash("blake2b-256", 32) >>,
       << "blake2b-384", NewHash("blake2b-384", 48) >>,
       << "blake2b-512", NewHash("blake2b-512", 64) >>,
       << "blake2s-256", NewHash("blake2s-256", 32) >>,
       << "blake2s-128", NewHash("blake2s-128", 16) >> >>

\* The assignments of init (part_000:83-100), in their order: the name and
\* the hash object its creation function makes.
initAssignments ==
    << << "md5", NewHash("md5", 16) >>,
       << "sha1", NewHash("sha1", 20) >>,
       << "sha2-224", NewHash("sha2-224", 28) >>,
       << "sha2-256", NewHash("sha2-256", 32) >>,
       << "sha2-384", NewHash("sha2-384", 48) >>,
       << "sha2-512", NewHash("sha2-512", 64) >>,
       << "sha2-512_224", NewHash("sha2-512_224", 28) >>,
       << "sha2-512_256", NewHash("sha2-512_256", 32) >>,
       << "sha3-224", NewHash("sha3-224", 28) >>,
       << "sha3-256", NewHash("sha3-256", 32) >>,
       << "sha3-384", NewHash("sha3-384", 48) >>,
       << "sha3-512", NewHash("sha3-512", 64) >>,
       << "blake2b-256", NewHash("blake2b-256", 32) >>,
       << "blake2b-384", NewHash("blake2b-384", 48) >>,
       << "blake2b-512", NewHash("blake2b-512", 64) >>,
       << "blake2s-256", NewHash("blake2s-256", 32) >> >>

\* hashAlgorithmNameToFunction after init: the names registered, and the
\* hash object of a name (the last assignment to it).
RegisteredNames == { initAssignments[k][1] : k \in DOMAIN initAssignments }

hashAlgorithmNameToFunction(name) ==
    LET ks == { k \in DOMAIN initAssignments : initAssignments[k][1] = name }
        last == CHOOSE k \in ks : \A j \in ks : j <= k
    IN  initAssignments[last][2]

\* The names New is asked for: the registered ones and some others.
FactoryNames ==
    RegisteredNames
        \cup { "", "MD5", " md5 ", "sha3-256 ", "sha256", "blake2s-128",
               "sha2-512_225", "nope" }

\* hashfactory.New.  Version 3.0.0 (hashfactory/implementation.go:56-66)
\* looks up the trimmed, lower-cased name and returns it too; version 4.2.0
\* (part_000:58-66) looks up the name as given.
New(version, hashAlgorithm) ==
    LET name == IF version = "V3" THEN ToLowerTrimSpace(hashAlgorithm)
                ELSE hashAlgorithm
        ok == name \in RegisteredNames
    IN  [name |-> name,
         hash |-> IF ok THEN hashAlgorithmNameToFunction(name) ELSE nilHash,
         ok |-> ok]

RECURSIVE Insert(_, _)
\* s is sorted: n is put before the first element that is not less.
Insert(s, n) ==
    IF s = << >> THEN << n >>
    ELSE IF LessBytes(StringBytes(Head(s)), StringBytes(n))
    THEN << Head(s) >> \o Insert(Tail(s), n)
    ELSE << n >> \o s

RECURSIVE SortStrings(_)
\* slices.Sort / sort.Strings: the elements in ascending order.
SortStrings(s) ==
    IF s = << >> THEN << >> ELSE Insert(SortStrings(Tail(s)), Head(s))

RECURSIVE Keys(_)
\* The keys of the map in some order of iteration, each once.
Keys(names) ==
    IF names = { } THEN << >>
    ELSE LET n == CHOOSE x \in names : TRUE
         IN  << n >> \o Keys(names \ { n })

\* KnownHashNames (part_000:69-78): the keys of the map, sorted.
KnownHashNames == SortStrings(Keys(RegisteredNames))

\* The caller asks the factory for a hash object ...
FactoryNew ==
    /\ cli.pc = "factory"
    /\ cli.made = << >>
    /\ cli' = [cli EXCEPT !.made = << New(cli.version, cli.hashAlgorithm) >>]
    /\ UNCHANGED << encodeTable, calls, results, arg, pc, locals, trips,
                    parked, stdout, stderr >>

\* ... and for the known names (myUsage).
FactoryKnownHashNames ==
    /\ cli.pc = "factory"
    /\ cli.known = << >>
    /\ cli' = [cli EXCEPT !.known = << KnownHashNames >>]
    /\ UNCHANGED << encodeTable, calls, results, arg, pc, locals, trips,
                    parked, stdout, stderr >>

NextFactory ==
    \/ FactoryNew
    \/ FactoryKnownHashNames

InitFactory ==
    /\ \E v \in { "V3", "V4" }, n \in FactoryNames :
           cli = [pc |-> "factory", version |-> v, hashAlgorithm |-> n,
                  made |-> << >>, known |-> << >>]
    /\ encodeTable = encodeTableInit
    /\ calls = << >>
    /\ results = << >>
    /\ arg = Slice(<< >>)
    /\ pc = "idle"
    /\ NoLocals
    /\ trips = NoTrips
    /\ parked = << >>
    /\ stdout = << >>
    /\ stderr = << >>

SpecFactory == InitFactory /\ [][NextFactory]_vars

\* hash.Hash.Sum(nil) of a hash object of the given size: the digest is made
\* by the cryptographic library; it stands here as size bytes that depend
\* on a seed drawn from what was written to the hash object.
Digest(size, seed) == [k \in 1..size |-> (seed + 37 * k) % 256]

\* The seeds of the digests printed on their own.
DigestSeeds == { 0, 99, 218, 255 }

\* Z85Encoder.PrintEncoded(hashValue) on a digest of each registered
\* algorithm.
InitDigest ==
    /\ \E n \in RegisteredNames, seed \in DigestSeeds :
           /\ calls = << Slice(Digest(hashAlgorithmNameToFunction(n).size,
                                      seed)) >>
           /\ cli = [pc |-> "print", rc |-> rcOK,
                     hash |-> hashAlgorithmNameToFunction(n)]
    /\ encodeTable = encodeTableInit
    /\ results = << >>
    /\ arg = Slice(<< >>)
    /\ pc = "idle"
    /\ NoLocals
    /\ trips = NoTrips
    /\ parked = << >>
    /\ stdout = << >>
    /\ stderr = << >>

SpecDigest == InitDigest /\ [][NextPrint]_vars

\* ------------------------------------------------------- command line ----

\* An option of the command line: given with a value, or not given.
Opt(v) == [given |-> TRUE, value |-> v]
NoOpt == [given |-> FALSE, value |-> ""]

\* maxHexParameterLen (part_005:186, 409)
maxHexParameterLen == 8

\* The boolean options each version of the program defines.
BoolOptions(version) ==
    CASE version = "V1" -> { "hex", "base32", "base64", "lower", "upper",
                             "noheader" }
      [] version = "V2" -> { "hex", "base16", "base32", "base64", "z85",
                             "lower", "upper" }
      [] version = "V3" -> { "lower", "upper" }

\* The command lines of a version that hold defined options only:
\* positional arguments left over or not, and each option given or not.
DefinedCommandLines(version) ==
    [version : { version },
     undefined : { FALSE },
     nArg : 0..1,
     hash : { NoOpt, Opt("md5"), Opt("nope") },
     source : { NoOpt, Opt(""), Opt("x") },
     file : { NoOpt, Opt(""), Opt("f") },
     hexsource : IF version = "V3"
                 THEN { NoOpt, Opt(""), Opt(" "), Opt("zz"), Opt("6162") }
                 ELSE { NoOpt },
     encoding : IF version = "V3"
                THEN { NoOpt, Opt(" Z85 "), Opt("base16"), Opt("base32"),
                       Opt("base64"), Opt("bogus") }
                ELSE { NoOpt },
     separator : { NoOpt, Opt(":"), Opt("123456789") },
     prefix : { NoOpt, Opt("123456789") },
     bools : SUBSET BoolOptions(version)]

\* The command lines of a version: those above, and some of them with an
\* option behind them that the program does not define ("--bogus").
CommandLines(version) ==
    DefinedCommandLines(version)
        \cup { [l EXCEPT !.undefined = TRUE] :
                   l \in { d \in DefinedCommandLines(version) :
                               /\ d.nArg = 0
                               /\ ~d.separator.given
                               /\ ~d.prefix.given
                               /\ d.bools \subseteq { "lower", "upper" } } }

\* flag.StringVar and flag.Parse: the value given, or the default.
StringFlag(opt, default) == IF opt.given THEN opt.value ELSE default

\* The option variables after flag.Parse, with the defaults of
\* main.go:68-99 and of defineCommandLineFlags (part_005:249-267).
defineCommandLineFlags(line) ==
    [hashAlgorithm |-> StringFlag(line.hash, "sha3-256"),
     source |-> StringFlag(line.source, ""),
     fileName |-> StringFlag(line.file, ""),
     hexSource |-> "",
     encodingType |-> "",
     separator |-> StringFlag(line.separator, ""),
     prefix |-> StringFlag(line.prefix, ""),
     useLower |-> "lower" \in line.bools,
     useUpper |-> "upper" \in line.bools,
     useHex |-> "hex" \in line.bools,
     useBase16 |-> "base16" \in line.bools,
     useBase32 |-> "base32" \in line.bools,
     useBase64 |-> "base64" \in line.bools,
     useZ85 |-> "z85" \in line.bools,
     noHeader |-> "noheader" \in line.bools,
     sourceBytes |-> << >>,
     haveSource |-> FALSE,
     haveHexSource |-> FALSE,
     haveFile |-> FALSE]

\* The same with the defaults of parseCommandLineWithFlags
\* (part_005:470-488): no hash algorithm, encoding hex.
parseCommandLineWithFlags(line) ==
    [hashAlgorithm |-> StringFlag(line.hash, ""),
     source |-> StringFlag(line.source, ""),
     fileName |-> StringFlag(line.file, ""),
     hexSource |-> StringFlag(line.hexsource, ""),
     encodingType |-> StringFlag(line.encoding, "hex"),
     separator |-> StringFlag(line.separator, ""),
     prefix |-> StringFlag(line.prefix, ""),
     useLower |-> "lower" \in line.bools,
     useUpper |-> "upper" \in line.bools,
     useHex |-> FALSE,
     useBase16 |-> FALSE,
     useBase32 |-> FALSE,
     useBase64 |-> FALSE,
     useZ85 |-> FALSE,
     noHeader |-> FALSE,
     sourceBytes |-> << >>,
     haveSource |-> FALSE,
     haveHexSource |-> FALSE,
     haveFile |-> FALSE]

\* A faulty visitor: the case for 'file' is missing.
visitOptionsWithoutFile(f, line) ==
    [f EXCEPT !.haveSource = line.source.given,
              !.haveHexSource = line.hexsource.given]

\* flag.Visit(visitOptions): the options that were set on the command line.
visitOptions(f, line) ==
    [f EXCEPT !.haveSource = line.source.given,
              !.haveHexSource = line.hexsource.given,
              !.haveFile = line.file.given]

\* countTrues: the number of TRUE elements of a sequence of booleans.
countTrues(v) == Cardinality({ k \in DOMAIN v : v[k] })

\* stringhelper.RemoveAllWhitespace(s), on the option values enumerated.
RemoveAllWhitespace(s) ==
    CASE s = " " -> ""
      [] OTHER -> s

\* The error text of hex.DecodeString(s), "" for none, on the option
\* values enumerated.
hexDecodeStringError(s) ==
    CASE s = "zz" -> "encoding/hex: invalid byte: U+007A 'z'"
      [] s = " " -> "encoding/hex: invalid byte: U+0020 ' '"
      [] OTHER -> ""

\* hex.DecodeString(s): the bytes, on the option values enumerated.
hexDecodeString(s) ==
    CASE s = "6162" -> << 97, 98 >>
      [] OTHER -> << >>

\* encodingTypeToPrinter (part_005:619-636): is there a printer for the type.
encodingTypeToPrinter(encodingType) ==
    encodingType \in { "hex", "base16", "base32", "base64", "z85" }

\* A printer that is not a hex printer, and no printer.
Printer(kind) ==
    [kind |-> kind, separator |-> << >>, prefix |-> << >>, caseOffset |-> 0]

NoPrinter == Printer("none")

\* encodingTypeToPrinter (part_005:619-636): the printer it makes from the
\* option variables v.
encodedPrinter(v) ==
    CASE v.encodingType \in { "hex", "base16" } ->
             NewHexEncoder(StringBytes(v.separator), StringBytes(v.prefix),
                           v.useLower)
      [] v.encodingType = "base32" -> Printer("base32")
      [] v.encodingType = "base64" -> Printer("base64")
      [] v.encodingType = "z85" -> Printer("z85")
      [] OTHER -> NoPrinter

\* The outcome of a check: the return code and the message of
\* printUsageError / printUsageErrorf.
CheckOk == [rc |-> rcOK, msg |-> ""]
UsageError(msg) == [rc |-> rcParameterError, msg |-> msg]

\* The checks on the sources that the three versions share (main.go:113-127,
\* part_005:290-304): v is the option variables after flag.Visit.
checkSources(v, rest) ==
    IF v.haveSource /\ v.haveFile
    THEN UsageError("Do not specify 'source' and 'file'")
    ELSE IF ~(v.haveSource \/ v.haveFile)
    THEN UsageError("Specify either 'source' or 'file'")
    ELSE IF v.haveSource /\ Len(v.source) = 0
    THEN UsageError("Source is empty")
    ELSE IF v.haveFile /\ Len(v.fileName) = 0
    THEN UsageError("File name is empty")
    ELSE rest

\* A faulty check: 'lower' and 'upper' may be given together.
checkHexParametersAnyCase(v) ==
    IF Len(v.separator) > maxHexParameterLen
    THEN UsageError("separator is too long")
    ELSE IF Len(v.prefix) > maxHexParameterLen
    THEN UsageError("prefix is too long")
    ELSE CheckOk

\* The checks on the hex parameters and the case (part_005:306-318,
\* 576-588).
checkHexParameters(v) ==
    IF Len(v.separator) > maxHexParameterLen
    THEN UsageError("separator is too long")
    ELSE IF Len(v.prefix) > maxHexParameterLen
    THEN UsageError("prefix is too long")
    ELSE IF v.useLower /\ v.useUpper
    THEN UsageError("Specify either 'lower' or 'upper'")
    ELSE CheckOk

\* realMain, step 2 up to line 131 (main.go:107-131).
realMainCheck(f, line) ==
    IF line.nArg > 0
    THEN UsageError("Arguments without flags present: [extra]\n")
    ELSE LET v == visitOptions(f, line)
         IN  checkSources(v,
                 IF v.useLower /\ v.useUpper
                 THEN UsageError("Specify either 'lower' or 'upper'")
                 ELSE CheckOk)

\* checkCommandLineFlags of version 2.0.0 (part_005:279-319).
checkCommandLineFlagsV2(f, line) ==
    IF line.nArg > 0
    THEN UsageError("Arguments without flags present: [extra]")
    ELSE LET v == visitOptions(f, line)
         IN  IF countTrues(<< v.useHex, v.useBase32, v.useBase64,
                              v.useZ85 >>) > 1
             THEN UsageError("More than one encoding specified")
             ELSE checkSources(v, checkHexParameters(v))

\* checkCommandLineFlags of version 3.1.0 (part_005:526-590).
checkCommandLineFlagsV3(f, line) ==
    IF line.nArg > 0
    THEN UsageError("Arguments without flags present: [extra]")
    ELSE IF Len(f.hashAlgorithm) = 0
    THEN UsageError("No hash algorithm specified")
    ELSE LET v == visitOptions(f, line)
             numSources == countTrues(<< v.haveSource, v.haveHexSource,
                                         v.haveFile >>)
         IN  IF numSources = 0
             THEN UsageError("Specify either 'source', 'hexsource' or 'file'")
             ELSE IF numSources > 1
             THEN UsageError(
                      "Specify only one of 'source', 'hexsource' or 'file'")
             ELSE IF v.haveSource /\ Len(v.source) = 0
             THEN UsageError("Source is empty")
             ELSE IF v.haveHexSource /\ Len(v.hexSource) = 0
             THEN UsageError("Hex source is empty")
             ELSE IF v.haveHexSource /\ hexDecodeStringError(v.hexSource) # ""
             THEN UsageError("Invalid hex string: "
                                 \o hexDecodeStringError(v.hexSource))
             ELSE IF v.haveFile /\ Len(v.fileName) = 0
             THEN UsageError("File name is empty")
             ELSE IF ~encodingTypeToPrinter(v.encodingType)
             THEN UsageError("Invalid encoding type '" \o v.encodingType
                                 \o "'")
             ELSE checkHexParameters(v)

\* sourceBytes as checkCommandLineFlags of version 3.1.0 leaves it
\* (part_005:548-566): the bytes of 'source', or the decoded 'hexsource';
\* v is the option variables after flag.Visit.
sourceBytesAfterCheck(v) ==
    IF countTrues(<< v.haveSource, v.haveHexSource, v.haveFile >>) # 1
    THEN v.sourceBytes
    ELSE IF v.haveSource /\ Len(v.source) # 0
    THEN StringBytes(v.source)
    ELSE IF v.haveHexSource /\ Len(v.hexSource) # 0
    THEN hexDecodeString(v.hexSource)
    ELSE v.sourceBytes

\* The option variables a check leaves: flag.Visit has run unless the check
\* returned before it, and version 3.1.0 has set sourceBytes.
visited(f, line) ==
    IF line.nArg > 0 \/ (line.version = "V3" /\ Len(f.hashAlgorithm) = 0)
    THEN f
    ELSE IF line.version = "V3"
    THEN [visitOptions(f, line) EXCEPT
              !.sourceBytes = sourceBytesAfterCheck(visitOptions(f, line))]
    ELSE visitOptions(f, line)

\* main.go:133-139.
realMainNormalize(f) ==
    LET l == [f EXCEPT !.useLower = f.useLower \/ ~(f.useLower \/ f.useUpper)]
    IN  [l EXCEPT !.useHex =
                      l.useHex \/ ~(l.useBase32 \/ l.useBase64 \/ l.useHex)]

\* A faulty normalization: lower case is the default.
normalizeCommandLineFlagsV2LowerDefault(f) ==
    LET u == [f EXCEPT !.useLower = f.useLower \/ ~(f.useLower \/ f.useUpper)]
        h == [u EXCEPT !.useHex = u.useHex \/ u.useBase16]
    IN  [h EXCEPT !.useHex =
                      h.useHex
                          \/ ~(h.useHex \/ h.useBase32 \/ h.useBase64
                                   \/ h.useZ85)]

\* normalizeCommandLineFlags of version 2.0.0 (part_005:333-345).
normalizeCommandLineFlagsV2(f) ==
    LET u == [f EXCEPT !.useUpper = f.useUpper \/ ~(f.useLower \/ f.useUpper)]
        h == [u EXCEPT !.useHex = u.useHex \/ u.useBase16]
    IN  [h EXCEPT !.useHex =
                      h.useHex
                          \/ ~(h.useHex \/ h.useBase32 \/ h.useBase64
                                   \/ h.useZ85)]

\* normalizeCommandLineFlags of version 3.1.0 (part_005:500-523).
normalizeCommandLineFlagsV3(f) ==
    LET e == IF Len(f.encodingType) > 0
             THEN ToLowerTrimSpace(f.encodingType)
             ELSE f.encodingType
    IN  [f EXCEPT
             !.encodingType =
                 IF Len(e) = 0 \/ e = "base16" THEN "hex" ELSE e,
             !.hexSource =
                 IF Len(f.hexSource) > 0
                 THEN RemoveAllWhitespace(f.hexSource)
                 ELSE f.hexSource,
             !.hashAlgorithm =
                 IF Len(f.hashAlgorithm) > 0
                 THEN ToLowerTrimSpace(f.hashAlgorithm)
                 ELSE f.hashAlgorithm]

\* What flag.Usage writes (myUsage).
usageText == "usage"

\* printUsageError, printUsageErrorf and printUsage: an empty line, the
\* message, a line end and the usage, all to the flag package's output.
printUsageError(msg) == << "\n", msg, "\n", usageText >>

\* The option variables before flag.Parse.
NoFlags == << >>

\* The Z85 encoder is at rest while the command line is processed.
encoderIdle ==
    UNCHANGED << encodeTable, calls, results, arg, pc, locals, trips, parked >>

\* flag.Parse (main.go:103) parses flag.CommandLine, whose error handling
\* is ExitOnError: on an option that is not defined it writes the error
\* and the usage and ends the program with this code.
flagParseExitCode == 2

\* Step 1 of realMain: the flags are defined and the command line is parsed.
ParseCommandLine ==
    /\ cli.pc = "start"
    /\ cli' = [cli EXCEPT
                   !.flags = IF cli.line.version = "V3"
                             THEN parseCommandLineWithFlags(cli.line)
                             ELSE defineCommandLineFlags(cli.line),
                   !.stage = IF cli.line.undefined THEN "parse" ELSE @,
                   !.rc = IF cli.line.undefined THEN flagParseExitCode ELSE @,
                   !.pc = IF cli.line.undefined THEN "exit" ELSE "parsed"]
    /\ stderr' = IF cli.line.undefined
                 THEN stderr \o << "flag provided but not defined: -bogus",
                                   "\n", usageText >>
                 ELSE stderr
    /\ encoderIdle
    /\ UNCHANGED stdout

\* A check returns r: on an error the message and the usage are written and
\* realMain returns the code; otherwise realMain goes on.
CheckStep(r) ==
    /\ cli' = [cli EXCEPT
                   !.flags = visited(cli.flags, cli.line),
                   !.done = @ \cup { "check" },
                   !.printer =
                       IF cli.line.version = "V3" /\ r.rc = rcOK
                       THEN encodedPrinter(visited(cli.flags, cli.line))
                       ELSE @,
                   !.stage = IF r.rc # rcOK THEN "check" ELSE @,
                   !.rc = r.rc,
                   !.pc = IF r.rc # rcOK THEN "exit"
                          ELSE IF "normalize" \in cli.done THEN "ready"
                          ELSE "parsed"]
    /\ stderr' = IF r.rc # rcOK THEN stderr \o printUsageError(r.msg)
                 ELSE stderr
    /\ encoderIdle
    /\ UNCHANGED stdout

\* The normalisation leaves the option variables f.
NormalizeStep(f) ==
    /\ cli' = [cli EXCEPT
                   !.flags = f,
                   !.done = @ \cup { "normalize" },
                   !.pc = IF "check" \in cli.done THEN "ready" ELSE "parsed"]
    /\ encoderIdle
    /\ UNCHANGED << stdout, stderr >>

\* main.go: the checks of lines 107-131 ...
CheckV1 ==
    /\ cli.pc = "parsed"
    /\ cli.line.version = "V1"
    /\ "check" \notin cli.done
    /\ CheckStep(realMainCheck(cli.flags, cli.line))

\* ... and then the defaults of lines 133-139.
NormalizeV1 ==
    /\ cli.pc = "parsed"
    /\ cli.line.version = "V1"
    /\ "check" \in cli.done
    /\ "normalize" \notin cli.done
    /\ NormalizeStep(realMainNormalize(cli.flags))

\* Version 2.0.0: realMain calls checkCommandLineFlags and
\* normalizeCommandLineFlags; neither function fixes the order of the two
\* calls, so either may come first.
CheckV2 ==
    /\ cli.pc = "parsed"
    /\ cli.line.version = "V2"
    /\ "check" \notin cli.done
    /\ CheckStep(checkCommandLineFlagsV2(cli.flags, cli.line))

NormalizeV2 ==
    /\ cli.pc = "parsed"
    /\ cli.line.version = "V2"
    /\ "normalize" \notin cli.done
    /\ NormalizeStep(normalizeCommandLineFlagsV2(cli.flags))

\* Version 3.1.0, likewise.
CheckV3 ==
    /\ cli.pc = "parsed"
    /\ cli.line.version = "V3"
    /\ "check" \notin cli.done
    /\ CheckStep(checkCommandLineFlagsV3(cli.flags, cli.line))

NormalizeV3 ==
    /\ cli.pc = "parsed"
    /\ cli.line.version = "V3"
    /\ "normalize" \notin cli.done
    /\ NormalizeStep(normalizeCommandLineFlagsV3(cli.flags))

\* ---------------------------------------------- hashing and printing ----

\* What a file gives when it is opened and read: an error of os.Open or of
\* io.Copy, or its contents.
FileOutcomes ==
    { [err |-> "open f: no such file or directory", contents |-> << >>],
      [err |-> "read f: input/output error", contents |-> << >>],
      [err |-> "", contents |-> << >>],
      [err |-> "", contents |-> << 1, 2, 3 >>] }

RECURSIVE SumBytes(_)
SumBytes(b) == IF b = << >> THEN 0 ELSE Head(b) + SumBytes(Tail(b))

\* hashFunc.Write(data) and hashFunc.Sum(nil): the digest of the data.
WriteAndSum(hashFunc, data) ==
    Digest(hashFunc.size, (31 * Len(data) + SumBytes(data)) % 256)

\* The result of hashData: the value, the error text ("" for nil), the
\* bytes written to the hash function and whether a file was opened.
HashResult(hashValue, err, written, opened) ==
    [hashValue |-> hashValue, err |-> err, written |-> written,
     opened |-> opened]

\* fileHash (main.go:241-253, hash.go:61-73) on a file that gives o.
fileHash(hashFunc, fileName, o) ==
    IF o.err # ""
    THEN HashResult(<< >>, o.err, << >>, TRUE)
    ELSE HashResult(WriteAndSum(hashFunc, o.contents), "", o.contents, TRUE)

\* The error hashData makes of the error of fileHash.
errorReadingFile(fileName, err) ==
    "error reading file '" \o fileName \o "': " \o err

\* hashData of version 1.0.0 (main.go:224-238).
hashDataV1(hashFunc, haveSource, sourceText, fileName, o) ==
    IF haveSource
    THEN HashResult(WriteAndSum(hashFunc, StringBytes(sourceText)), "",
                    StringBytes(sourceText), FALSE)
    ELSE LET r == fileHash(hashFunc, fileName, o)
         IN  IF r.err # ""
             THEN [r EXCEPT !.err = errorReadingFile(fileName, r.err)]
             ELSE r

\* A faulty hashData: the file is read whatever sourceBytes holds.
hashDataFileOnly(hashFunc, sourceBytes, fileName, o) ==
    LET r == fileHash(hashFunc, fileName, o)
    IN  IF r.err # ""
        THEN [r EXCEPT !.err = errorReadingFile(fileName, r.err)]
        ELSE r

\* hashData of version 2.0.0 (hash.go:43-58).
hashData(hashFunc, sourceBytes, fileName, o) ==
    IF Len(sourceBytes) # 0
    THEN HashResult(WriteAndSum(hashFunc, sourceBytes), "", sourceBytes,
                    FALSE)
    ELSE LET r == fileHash(hashFunc, fileName, o)
         IN  IF r.err # ""
             THEN [r EXCEPT !.err = errorReadingFile(fileName, r.err)]
             ELSE r

\* printErrorf (main.go:297-302): an empty line and the message.
printErrorf(msg) == << "\n", msg >>

\* The alphabets of encoding/base64 and encoding/base32, StdEncoding.
base64Alphabet ==
    [k \in 1..64 |->
         IF k <= 26 THEN 64 + k
         ELSE IF k <= 52 THEN 96 + (k - 26)
         ELSE IF k <= 62 THEN 47 + (k - 52)
         ELSE IF k = 63 THEN 43 ELSE 47]

base32Alphabet == [k \in 1..32 |-> IF k <= 26 THEN 64 + k ELSE 49 + (k - 26)]

\* Bit p (from 0, most significant first) of the byte string, 0 behind it.
BitAt(data, p) ==
    IF p < 8 * Len(data)
    THEN (data[(p \div 8) + 1] \div (2 ^ (7 - (p % 8)))) % 2
    ELSE 0

RECURSIVE BitsValue(_, _, _)
\* The number that the w bits from position p on make.
BitsValue(data, p, w) ==
    IF w = 0 THEN 0
    ELSE 2 * BitsValue(data, p, w - 1) + BitAt(data, p + w - 1)

\* EncodeToString of an encoding without padding: one character of the
\* alphabet for every w bits of the data, the last bits filled with 0.
EncodeToString(alphabet, w, data) ==
    [c \in 1..((8 * Len(data) + w - 1) \div w) |->
         alphabet[BitsValue(data, (c - 1) * w, w) + 1]]

\* fmt.Printf with %02x or %02X: the two digits of the byte.
fmtHexDigit(n, useLower) ==
    IF n < 10 THEN 48 + n ELSE IF useLower THEN 87 + n ELSE 55 + n

RECURSIVE printHexLoop(_, _, _, _, _)
\* The loop of printHex (output.go:84-95).
printHexLoop(hashValue, separator, prefix, useLower, useSeparator) ==
    IF hashValue = << >> THEN << >>
    ELSE (IF useSeparator THEN separator ELSE << >>)
             \o (IF Len(prefix) # 0 THEN prefix ELSE << >>)
             \o << fmtHexDigit(Head(hashValue) \div 16, useLower),
                   fmtHexDigit(Head(hashValue) % 16, useLower) >>
             \o printHexLoop(Tail(hashValue), separator, prefix, useLower,
                             TRUE)

\* printHex (output.go:71-98).
printHex(hashValue, separator, prefix, useLower) ==
    printHexLoop(hashValue, separator, prefix, useLower, FALSE) \o << 10 >>

\* Step 4 of realMain (main.go:155-179): what it writes with the option
\* variables f.
printResult(normalizedHashTypeName, hashValue, f) ==
    (IF ~f.noHeader THEN StringBytes("Hash  : ") ELSE << >>)
        \o StringBytes(normalizedHashTypeName) \o << 10 >>
        \o (IF f.useHex
            THEN (IF ~f.noHeader THEN StringBytes("Hex   : ") ELSE << >>)
                     \o printHex(hashValue, StringBytes(f.separator),
                                 StringBytes(f.prefix), f.useLower)
            ELSE << >>)
        \o (IF f.useBase32
            THEN (IF ~f.noHeader THEN StringBytes("Base32: ") ELSE << >>)
                     \o EncodeToString(base32Alphabet, 5, hashValue)
                     \o << 10 >>
            ELSE << >>)
        \o (IF f.useBase64
            THEN (IF ~f.noHeader THEN StringBytes("Base64: ") ELSE << >>)
                     \o EncodeToString(base64Alphabet, 6, hashValue)
                     \o << 10 >>
            ELSE << >>)

\* The hash name is not known: the message, the usage and the code.
InvalidHashName ==
    /\ cli' = [cli EXCEPT !.rc = rcParameterError,
                          !.stage = "hash name",
                          !.pc = "exit"]
    /\ stderr' = stderr \o printUsageError("Invalid hash type: '"
                                               \o cli.flags.hashAlgorithm
                                               \o "'")

\* main.go:141-144: the hash function for the name, which the factory
\* normalizes.
NewHashFunctionOfType ==
    /\ cli.pc = "ready"
    /\ cli.line.version = "V1"
    /\ LET r == New("V3", cli.flags.hashAlgorithm)
       IN  IF r.ok
           THEN /\ cli' = [cli EXCEPT !.hash = r.hash,
                                      !.hashName = r.name,
                                      !.pc = "hash"]
                /\ stderr' = stderr
           ELSE InvalidHashName
    /\ encoderIdle
    /\ UNCHANGED stdout

\* Version 3.1.0: the hash function for the name, which the normalization
\* has made lower case; the factory of version 4.2.0 looks it up as it is.
NewHashV3 ==
    /\ cli.pc = "ready"
    /\ cli.line.version = "V3"
    /\ LET r == New("V4", cli.flags.hashAlgorithm)
       IN  IF r.ok
           THEN /\ cli' = [cli EXCEPT !.hash = r.hash,
                                      !.hashName = r.name,
                                      !.pc = "hash"]
                /\ stderr' = stderr
           ELSE InvalidHashName
    /\ encoderIdle
    /\ UNCHANGED stdout

\* hashData has returned r: on an error the message is written and realMain
\* returns the code of a processing error; otherwise the value is printed.
HashStep(r, next) ==
    /\ cli' = [cli EXCEPT !.hashValue = r.hashValue,
                          !.written = r.written,
                          !.opened = r.opened,
                          !.rc = IF r.err # "" THEN rcProcessingError ELSE @,
                          !.stage = IF r.err # "" THEN "hashing" ELSE @,
                          !.pc = IF r.err # "" THEN "exit" ELSE next]
    /\ stderr' = IF r.err # ""
                 THEN stderr \o printErrorf("Error hashing data: " \o r.err)
                 ELSE stderr
    /\ encoderIdle
    /\ UNCHANGED stdout

\* Step 3 of realMain (main.go:148-151).
HashDataV1 ==
    /\ cli.pc = "hash"
    /\ cli.line.version = "V1"
    /\ \E o \in FileOutcomes :
           HashStep(hashDataV1(cli.hash, cli.flags.haveSource,
                               cli.flags.source, cli.flags.fileName, o),
                    "printResult")

\* Version 3.1.0: hashData of hash.go with sourceBytes and fileName.
HashDataV3 ==
    /\ cli.pc = "hash"
    /\ cli.line.version = "V3"
    /\ \E o \in FileOutcomes :
           HashStep(hashData(cli.hash, cli.flags.sourceBytes,
                             cli.flags.fileName, o),
                    "printEncoded")

\* Step 4 of realMain (main.go:155-181).
PrintResult ==
    /\ cli.pc = "printResult"
    /\ stdout' = stdout \o printResult(cli.hashName, cli.hashValue, cli.flags)
    /\ cli' = [cli EXCEPT !.rc = rcOK, !.pc = "printed"]
    /\ encoderIdle
    /\ UNCHANGED stderr

\* Version 3.1.0: PrintEncoded of the printer that the check has made is
\* called with the hash value.
CallPrintEncoded ==
    /\ cli.pc = "printEncoded"
    /\ cli' = [cli EXCEPT
                   !.pc = CASE cli.printer.kind = "hex" -> "hexPrint"
                            [] cli.printer.kind = "base32" -> "base32Print"
                            [] cli.printer.kind = "base64" -> "base64Print"
                            [] cli.printer.kind = "z85" -> "print"]
    /\ calls' = IF cli.printer.kind = "z85"
                THEN << Slice(cli.hashValue) >>
                ELSE calls
    /\ UNCHANGED << encodeTable, results, arg, pc, locals, trips, parked,
                    stdout, stderr >>

\* Base32Encoder.PrintEncoded (base64_encoding.go:97-99).
Base32PrintEncoded ==
    /\ cli.pc = "base32Print"
    /\ stdout' = stdout \o EncodeToString(base32Alphabet, 5, cli.hashValue)
                     \o newLine
    /\ cli' = [cli EXCEPT !.pc = "printed"]
    /\ encoderIdle
    /\ UNCHANGED stderr

\* Base64Encoder.PrintEncoded (base64_encoding.go:47-49).
Base64PrintEncoded ==
    /\ cli.pc = "base64Print"
    /\ stdout' = stdout \o EncodeToString(base64Alphabet, 6, cli.hashValue)
                     \o newLine
    /\ cli' = [cli EXCEPT !.pc = "printed"]
    /\ encoderIdle
    /\ UNCHANGED stderr

NextCli ==
    \/ ParseCommandLine
    \/ CheckV1
    \/ NormalizeV1
    \/ CheckV2
    \/ NormalizeV2
    \/ CheckV3
    \/ NormalizeV3
    \/ NewHashFunctionOfType
    \/ NewHashV3
    \/ HashDataV1
    \/ HashDataV3
    \/ PrintResult
    \/ CallPrintEncoded
    \/ HexPrintEncoded
    \/ Base32PrintEncoded
    \/ Base64PrintEncoded
    \/ Next
    \/ PrintEncoded

\* The program is started with one of the enumerated command lines.
InitCli ==
    /\ \E l \in CommandLines("V1") \cup CommandLines("V2")
                    \cup CommandLines("V3") :
           cli = [pc |-> "start", line |-> l, flags |-> NoFlags,
                  done |-> { }, rc |-> rcOK, stage |-> "",
                  printer |-> NoPrinter, hash |-> nilHash, hashName |-> "",
                  hashValue |-> << >>, written |-> << >>, opened |-> FALSE]
    /\ encodeTable = encodeTableInit
    /\ calls = << >>
    /\ results = << >>
    /\ arg = Slice(<< >>)
    /\ pc = "idle"
    /\ NoLocals
    /\ trips = NoTrips
    /\ parked = << >>
    /\ stdout = << >>
    /\ stderr = << >>

SpecCli == InitCli /\ [][NextCli]_vars

\* One call that is not left unfinished: the goroutine that runs Encode
\* keeps being scheduled.
SpecFair == Init /\ [][Next]_vars /\ WF_vars(Next)

\* ------------------------------------------------- the claims' terms ----

\* A non-negative integer of any size as limbs [hi, lo], lo < 2^16: n*b + d.
MulAdd(n, b, d) ==
    LET l == n.lo * b + d
    IN  [hi |-> n.hi * b + (l \div W16), lo |-> l % W16]

RECURSIVE NumberOf(_, _)
\* The number whose base-b digits, most significant first, are ds.
NumberOf(ds, b) ==
    IF ds = << >> THEN [hi |-> 0, lo |-> 0]
    ELSE MulAdd(NumberOf(SubSeq(ds, 1, Len(ds) - 1), b), b, ds[Len(ds)])

Codes(first, last) == [k \in 1..(last - first + 1) |-> first + k - 1]

\* The Z85 alphabet: 0-9, a-z, A-Z, then . - : + = ^ ! / * ? & < > ( ) [ ]
\* { } @ % $ # (their ASCII codes).
Z85Alphabet ==
    Codes(48, 57) \o Codes(97, 122) \o Codes(65, 90) \o
    << 46, 45, 58, 43, 61, 94, 33, 47, 42, 63, 38, 60, 62, 40, 41, 91, 93,
       123, 125, 64, 37, 36, 35 >>

AlphabetChars == { Z85Alphabet[k] : k \in 1..Len(Z85Alphabet) }

\* The base-85 digit a character of the alphabet stands for.
DigitOf(c) == CHOOSE d \in 0..84 : Z85Alphabet[d + 1] = c

\* The finished calls.
Finished == { results[k] : k \in 1..Len(results) }

\* An argument Encode accepts.
Valid(a) == a.len % 4 = 0 /\ a.len <= MaxInt \div 5

\* The k-th group (k = 0, 1, ...) of n elements of a sequence.
Group(s, k, n) == SubSeq(s, k * n + 1, k * n + n)

\* "HelloWorld"
HelloWorld == << 72, 101, 108, 108, 111, 87, 111, 114, 108, 100 >>

\* ---------------------------------------------------------------- C1 ----

\* C1: for every input whose length is a multiple of 4 (and not too long),
\* Encode returns, for each 4-byte group taken left to right, the 5
\* characters alphabet[d4] .. alphabet[d0], where the group read as a
\* big-endian number v is d4*85^4 + d3*85^3 + d2*85^2 + d1*85 + d0 and every
\* d is in 0..84.
C1_GroupDigits ==
    \A r \in Finished :
        Valid(r.arg) =>
            /\ r.err = NoError
            /\ Len(r.str) = 5 * (r.arg.len \div 4)
            /\ \A k \in 0..(r.arg.len \div 4 - 1) :
                   LET chars == Group(r.str, k, 5)
                       bytes == Group(r.arg.bytes, k, 4)
                   IN  /\ \A j \in 1..5 : chars[j] \in AlphabetChars
                       /\ NumberOf([j \in 1..5 |-> DigitOf(chars[j])], 85)
                              = NumberOf(bytes, 256)

\* A finished call on two groups, the first above 2^31 and the second with
\* a first digit other than 0.
C1_Witness ==
    \E r \in Finished :
        /\ Valid(r.arg)
        /\ r.arg.len = 8
        /\ r.arg.bytes[1] >= 128
        /\ r.str[6] # Z85Alphabet[1]

\* ---------------------------------------------------------------- C2 ----

\* C2: encoding 0x86 0x4F 0xD2 0x6F 0xB5 0x59 0xF7 0x5B returns exactly
\* "HelloWorld" and a nil error.
C2_HelloWorld ==
    \A r \in Finished :
        r.arg.bytes = << 134, 79, 210, 111, 181, 89, 247, 91 >> =>
            r.str = HelloWorld /\ r.err = NoError

C2_Witness ==
    \E r \in Finished : r.arg = Slice(clearTheOne) /\ r.str # << >>

\* ---------------------------------------------------------------- C3 ----

\* C3 as stated: for all L that are not a multiple of 4, Encode of any
\* L-byte sequence fails with ErrInvalidLength, never with another error,
\* and the string returned with the error is empty.
C3_AsStated ==
    \A r \in Finished :
        r.arg.len % 4 # 0 =>
            r.err = [kind |-> "ErrInvalidLength", value |-> 4] /\ r.str = << >>

\* C3, amended: for all L that are not a multiple of 4 and are at most
\* floor(MaxInt / 5), Encode fails with ErrInvalidLength and an empty
\* string; for a longer L it fails with ErrTooLong and an empty string.
C3_InvalidLength ==
    \A r \in Finished :
        r.arg.len % 4 # 0 =>
            /\ r.str = << >>
            /\ r.err = IF r.arg.len <= MaxInt \div 5
                       THEN [kind |-> "ErrInvalidLength", value |-> 4]
                       ELSE [kind |-> "ErrTooLong"]

\* A finished call on 5, 6 or 7 bytes.
C3_Witness ==
    \E r \in Finished : r.arg.len \in 5..7 /\ r.err.kind = "ErrInvalidLength"

\* ---------------------------------------------------------------- C4 ----

\* C4: the first failing check wins: a length above floor(MaxInt / 5) fails
\* with ErrTooLong whether or not it is a multiple of 4, and a length at or
\* below floor(MaxInt / 5) never fails with ErrTooLong.
C4_TooLongFirst ==
    \A r \in Finished :
        /\ r.arg.len > MaxInt \div 5 => r.err = [kind |-> "ErrTooLong"]
        /\ r.arg.len <= MaxInt \div 5 => r.err # [kind |-> "ErrTooLong"]

\* A call on a length that fails both checks has finished.
C4_Witness ==
    \E r \in Finished :
        r.arg.len > MaxInt \div 5 /\ r.arg.len % 4 # 0 /\ r.err.kind # "nil"

\* ---------------------------------------------------------------- C5 ----

\* C5: for every valid input of length L the string returned has length
\* exactly L + L/4.
C5_OutputLength ==
    \A r \in Finished :
        Valid(r.arg) => Len(r.str) = r.arg.len + r.arg.len \div 4

C5_Witness ==
    \E r \in Finished : Valid(r.arg) /\ r.arg.len = 8 /\ Len(r.str) = 10

\* ---------------------------------------------------------------- C6 ----

\* C6: every character of the string returned for a valid input is one of
\* the 85 characters of the alphabet; no position is left a zero byte.
C6_AlphabetClosure ==
    \A r \in Finished :
        \A k \in 1..Len(r.str) : r.str[k] \in AlphabetChars /\ r.str[k] # 0

\* A finished call whose string holds the last character of the alphabet.
C6_Witness ==
    \E r \in Finished :
        /\ Valid(r.arg)
        /\ \E k \in 1..Len(r.str) : r.str[k] = Z85Alphabet[85]

\* ---------------------------------------------------------------- C7 ----

\* C7: encoding a zero-length (or nil) byte sequence returns a zero-length
\* string and a nil error.
C7_EmptyInput ==
    \A r \in Finished : r.arg.len = 0 => Len(r.str) = 0 /\ r.err = NoError

C7_Witness ==
    \E r \in Finished : r.arg.len = 0 /\ r.err.kind = "nil"

\* ---------------------------------------------------------------- C8 ----

\* C8: for valid A and B, Encode(A ++ B) = Encode(A) ++ Encode(B).  The
\* caller of SpecPair encodes A, B and A ++ B in this order.
C8_ChunkIndependence ==
    (Len(results) = 3 /\ Valid(results[1].arg) /\ Valid(results[2].arg)) =>
        /\ results[3].arg.bytes = results[1].arg.bytes \o results[2].arg.bytes
        /\ results[3].err = NoError
        /\ results[3].str = results[1].str \o results[2].str

\* The three calls have finished, on two different non-empty valid inputs.
C8_Witness ==
    /\ Len(results) = 3
    /\ Valid(results[1].arg) /\ Valid(results[2].arg)
    /\ results[1].arg.len > 0 /\ results[2].arg.len > 0
    /\ results[1].arg # results[2].arg
    /\ results[3].str # << >>

\* ---------------------------------------------------------------- C9 ----

\* C9: Encode is injective on valid inputs: two different valid byte
\* sequences never encode to the same string.
C9_Injective ==
    \A r1 \in Finished, r2 \in Finished :
        (Valid(r1.arg) /\ Valid(r2.arg) /\ r1.arg.bytes # r2.arg.bytes) =>
            r1.str # r2.str

\* Two finished calls on valid inputs of the same length that differ.
C9_Witness ==
    \E r1 \in Finished, r2 \in Finished :
        /\ Valid(r1.arg) /\ Valid(r2.arg)
        /\ r1.arg.len = r2.arg.len
        /\ r1.arg.len > 0
        /\ r1.arg.bytes # r2.arg.bytes
        /\ r1.str # r2.str

\* --------------------------------------------------------------- C10 ----

\* C10: the encoding table has exactly 85 entries, indexed 0..84, pairwise
\* distinct and equal character for character to 0-9, a-z, A-Z followed by
\* .-:+=^!/*?&<>()[]{}@%$# in every state: no operation modifies it.
C10_EncodeTable ==
    /\ Len(encodeTable) = 85
    /\ DOMAIN encodeTable = 1..85
    /\ Cardinality({ encodeTable[k] : k \in 1..85 }) = 85
    /\ encodeTable = Z85Alphabet

\* A call has run to its end and the table has been read for every digit.
C10_Witness ==
    /\ \E r \in Finished : r.arg.len = 8 /\ r.err.kind = "nil"
    /\ Len(encodeTable) = 85

\* --------------------------------------------------------------- C11 ----

\* C11: encoding the same input twice yields the same string and the same
\* error, whatever call was made in between.  The caller of SpecTwice
\* encodes A, X and A again.
C11_Deterministic ==
    Len(results) = 3 =>
        /\ results[3].arg = results[1].arg
        /\ results[3].str = results[1].str
        /\ results[3].err = results[1].err

\* The three calls have finished, the one in between on another, valid and
\* non-empty input.
C11_Witness ==
    /\ Len(results) = 3
    /\ results[1].str # << >>
    /\ results[2].arg # results[1].arg
    /\ results[2].str # << >>

\* --------------------------------------------------------------- C12 ----

\* C12: no step of a call changes the caller's byte sequence; the call only
\* advances its own view, which stays the rest of the caller's bytes.
C12_SourceReadOnly ==
    [][pc # "idle" =>
          /\ arg' = arg
          /\ pc' \notin { "idle", "panic" } =>
                 source' = SubSeq(arg.bytes, Len(arg.bytes) - Len(source') + 1,
                                  Len(arg.bytes))]_vars

\* The call has advanced its view past the first group of two.
C12_Witness ==
    /\ pc = "loop"
    /\ chunkIndex = 1
    /\ arg.len = 8
    /\ Len(source) = 4

\* --------------------------------------------------------------- C13 ----

\* C13: every call ends in exactly one of (encoded string, nil), (empty
\* string, ErrTooLong) and (empty string, ErrInvalidLength); on failure no
\* part of a result is produced, and no call writes to a standard stream.
C13_ThreeOutcomes ==
    /\ \A r \in Finished :
           /\ r.err.kind \in { "nil", "ErrTooLong", "ErrInvalidLength" }
           /\ r.err.kind # "nil" => r.str = << >>
           /\ r.err.kind = "nil" => Len(r.str) = 5 * (r.arg.len \div 4)
    /\ stdout = << >>
    /\ stderr = << >>

\* A call has failed on an input of more than one group.
C13_Witness ==
    \E r \in Finished : r.err.kind = "ErrInvalidLength" /\ r.arg.len > 4

\* --------------------------------------------------------------- C14 ----

\* C14: the invalid-length error carries the chunk size 4, its message is
\* exactly "input length is not a multiple of 4", and it is told from the
\* other error by its type.
C14_InvalidLengthError ==
    \A r \in Finished :
        (r.arg.len % 4 # 0 /\ r.arg.len <= MaxInt \div 5) =>
            /\ r.err.kind = "ErrInvalidLength"
            /\ r.err # [kind |-> "ErrTooLong"]
            /\ r.err.value = 4
            /\ ErrorText(r.err) = "input length is not a multiple of 4"

C14_Witness ==
    \E r \in Finished : r.arg.len = 3 /\ r.err.kind = "ErrInvalidLength"

\* --------------------------------------------------------------- C15 ----

\* C15: calls of Encode that run at the same time in several goroutines, on
\* inputs of their own, return what the same calls return when they run
\* alone: in a caller that encodes A and B both alone and side by side, all
\* calls on the same input return the same string and the same error.
C15_ConcurrentCalls ==
    \A j, k \in 1..Len(results) :
        results[j].arg = results[k].arg =>
            /\ results[j].str = results[k].str
            /\ results[j].err = results[k].err

\* The four calls have returned, on two different valid inputs, and B
\* returned before A in one pair and after A in the other: one pair ran
\* side by side.
C15_Witness ==
    /\ Len(results) = 4
    /\ results[1].arg = results[4].arg
    /\ results[2].arg = results[3].arg
    /\ results[1].arg # results[2].arg
    /\ results[1].str # << >>
    /\ results[2].str # << >>

\* --------------------------------------------------------------- C17 ----

C16_Rounds ==
    /\ trips.inner <= 5 * trips.outer
    /\ (pc = "idle" /\ results # << >>) =>
           LET r == results[Len(results)]
           IN  IF Valid(r.arg)
               THEN trips = [outer |-> r.arg.len \div 4,
                             inner |-> 5 * (r.arg.len \div 4)]
               ELSE trips = [outer |-> 0, inner |-> 0]

\* C16: Encode terminates for every input: the outer loop runs exactly L/4
\* times, the inner loop exactly 5 times per group, and an invalid input
\* returns without entering the loop.
C16_Terminates ==
    /\ []C16_Rounds
    /\ <>(pc = "idle" /\ calls = << >> /\ Len(results) = 1)

\* A call on two groups has returned.
C16_Witness ==
    /\ pc = "idle"
    /\ Len(results) = 1
    /\ Valid(results[1].arg)
    /\ trips.outer = 2

\* --------------------------------------------------------------- C18 ----

\* The encodings a command line selects, base16 being hex.
EncodingsSelected(line) ==
    { IF n = "base16" THEN "hex" ELSE n :
          n \in line.bools \cap { "hex", "base16", "base32", "base64", "z85" } }

\* C18: whenever the command line selects more than one encoding among hex
\* (or its alias base16), base32, base64 and z85, the check fails with a
\* message and the command-line-error code, and nothing is printed.
C18_OneEncoding ==
    (/\ cli.line.version = "V2"
     /\ "check" \in cli.done
     /\ Cardinality(EncodingsSelected(cli.line)) > 1) =>
        /\ cli.rc = rcParameterError
        /\ stderr # << >>
        /\ stdout = << >>

\* --------------------------------------------------------------- C19 ----

\* The source options given on a command line.
SourcesGiven(line) ==
    { n \in { "source", "file", "hexsource" } : line[n].given }

\* Exactly one source option is given, and its value is not empty.
OneSource(line) ==
    /\ Cardinality(SourcesGiven(line)) = 1
    /\ \A n \in SourcesGiven(line) : line[n].value # ""

\* C19: the check succeeds only if exactly one of source, file and hexsource
\* was set on the command line with a non-empty value; with none, several
\* or an empty value it writes a message and returns the code 1.
C19_SourceOptions ==
    "check" \in cli.done =>
        /\ cli.rc = rcOK => OneSource(cli.line)
        /\ ~OneSource(cli.line) =>
               /\ cli.rc = 1
               /\ cli.pc = "exit"
               /\ stderr # << >>

\* Two sources are given, nothing else is wrong, and the check has refused.
C19_Witness ==
    /\ "check" \in cli.done
    /\ cli.line.nArg = 0
    /\ cli.line.source = Opt("x")
    /\ cli.line.file = Opt("f")
    /\ cli.rc = rcParameterError
    /\ stderr[2] = "Do not specify 'source' and 'file'"

\* --------------------------------------------------------------- C20 ----

\* C20: when the command line names no hash algorithm the program uses
\* sha3-256, and the check does not fail for the missing algorithm.
C20_DefaultHash ==
    (cli.pc # "start" /\ ~cli.line.hash.given) =>
        /\ cli.flags.hashAlgorithm = "sha3-256"
        /\ ("check" \in cli.done /\ cli.rc # rcOK) =>
               stderr[2] # "No hash algorithm specified"

\* --------------------------------------------------------------- C27 ----

\* v mod d of a 32-bit value in limbs, for 0 < d < 2^15.
Mod32(v, d) == ((v.hi % d) * W16 + v.lo) % d

\* C27: in the digit loop the index value - (value/85)*85, computed in
\* unsigned 32-bit arithmetic, equals value mod 85 and lies in 0..84, and
\* after the 5 steps of a group the remaining value is 0.
C27_DigitArithmetic ==
    pc = "digit" =>
        IF i >= 0
        THEN LET index == DigitIndex(value, Div32(value, codeSize))
             IN  /\ index.hi = 0
                 /\ index.lo = Mod32(value, 85)
                 /\ index.lo \in 0..84
        ELSE /\ value = Zero32
             /\ trips.inner = 5 * trips.outer

\* The five digits of the largest group, 2^32 - 1, have been written.
C27_Witness ==
    /\ pc = "digit"
    /\ i < 0
    /\ value = Zero32
    /\ Upto(source, 4) = << 255, 255, 255, 255 >>

\* --------------------------------------------------------------- C28 ----

\* C28: Encode stays inside its views: at the start of the k-th round the
\* source view has 4 * (L/4 - k) bytes and the destination view
\* 5 * (L/4 - k), the read and the writes at positions 4 down to 0 are
\* inside them, and both views are empty when the loop ends.
C28_InBounds ==
    /\ pc # "panic"
    /\ pc = "loop" =>
           /\ chunkCount = sourceLen \div 4
           /\ chunkIndex <= chunkCount
           /\ Len(source) = 4 * (chunkCount - chunkIndex)
           /\ Len(result) - destination = 5 * (chunkCount - chunkIndex)
    /\ pc = "digit" =>
           /\ i \in -1..4
           /\ Len(source) >= 4
           /\ Len(result) - destination >= 5
           /\ destination >= 0

\* The loop over two groups has ended and both views are empty.
C28_Witness ==
    /\ pc = "loop"
    /\ chunkIndex = 2
    /\ chunkCount = 2
    /\ source = << >>
    /\ destination = Len(result)

\* --------------------------------------------------------------- C23 ----

\* The hex digits, upper case, and the character of a nibble.
HexDigits ==
    << 48, 49, 50, 51, 52, 53, 54, 55, 56, 57, 65, 66, 67, 68, 69, 70 >>

HexDigit(n, lower) ==
    IF lower /\ n > 9 THEN HexDigits[n + 1] + 32 ELSE HexDigits[n + 1]

\* What the claim says is written for the k-th byte of n: the separator
\* unless it is the first, the prefix, two digits.
HexField(v, k, s, p, lower) ==
    (IF k > 1 THEN s ELSE << >>) \o p
        \o << HexDigit(v[k] \div 16, lower), HexDigit(v[k] % 16, lower) >>

RECURSIVE HexFields(_, _, _, _, _)
HexFields(v, k, s, p, lower) ==
    IF k > Len(v) THEN << >>
    ELSE HexField(v, k, s, p, lower) \o HexFields(v, k + 1, s, p, lower)

\* C23: hex printing of b1..bn writes for each byte the prefix and the two
\* hex digits of the byte, the separator between consecutive bytes only,
\* and one newline at the end; for an empty value only the newline.
C23_HexLayout ==
    cli.pc = "printed" =>
        LET n == Len(cli.hashValue)
            s == cli.separator
            p == cli.prefix
        IN  /\ stdout = HexFields(cli.hashValue, 1, s, p, cli.useLower)
                            \o << 10 >>
            /\ Len(stdout) =
                   n * (Len(p) + 2) + (IF n > 0 THEN (n - 1) * Len(s) ELSE 0)
                       + 1
            /\ n = 0 => stdout = << 10 >>

\* Four bytes were printed with prefix "0x" and separator ", ".
C23_Witness ==
    /\ cli.pc = "printed"
    /\ Len(cli.hashValue) = 4
    /\ cli.separator = << 44, 32 >>
    /\ cli.prefix = << 48, 120 >>
    /\ Len(stdout) = 23

\* --------------------------------------------------------------- C26 ----

\* C26: for every byte and both cases printHexByte writes two characters,
\* the upper nibble first, '0'-'9' for 0..9 and 'A'-'F' or 'a'-'f' for
\* 10..15, and the character sums stay below 2^8.
C26_HexByte ==
    (cli.pc = "printed" /\ Len(cli.hashValue) = 1) =>
        LET b == cli.hashValue[1]
            hi == b \div 16
            lo == b % 16
            at == Len(cli.prefix)
            off == cli.printer.caseOffset
        IN  /\ Len(stdout) = at + 3
            /\ stdout[at + 1] = HexDigit(hi, cli.useLower)
            /\ stdout[at + 2] = HexDigit(lo, cli.useLower)
            /\ stdout[at + 1] \in (48..57) \cup (65..70) \cup (97..102)
            /\ stdout[at + 1] <= 57 <=> hi <= 9
            /\ stdout[at + 2] <= 57 <=> lo <= 9
            /\ 15 + 48 + off < 256
            /\ off = IF cli.useLower THEN 39 ELSE 7

\* The byte 0xAF was printed in lower case: "af".
C26_Witness ==
    /\ cli.pc = "printed"
    /\ cli.hashValue = << 175 >>
    /\ cli.useLower
    /\ cli.prefix = << >>
    /\ stdout = << 97, 102, 10 >>

\* --------------------------------------------------------------- C24 ----

\* The 16 algorithms of the README, in the order it lists them.
ReadmeList ==
    << "blake2b-256", "blake2b-384", "blake2b-512", "blake2s-256", "md5",
       "sha1", "sha2-224", "sha2-256", "sha2-384", "sha2-512",
       "sha2-512_224", "sha2-512_256", "sha3-224", "sha3-256", "sha3-384",
       "sha3-512" >>

ReadmeNames == { ReadmeList[k] : k \in DOMAIN ReadmeList }

\* The names the factory is asked for that are one of the 16 only after
\* trimming white space and lower-casing.
ReadmeNamesRespelled == { "MD5", " md5 ", "sha3-256 " }

\* KnownHashNames has returned the 16 names, ascending, each once.
KnownNamesAsListed ==
    cli.known # << >> =>
        /\ cli.known[1] = ReadmeList
        /\ \A k \in 1..(Len(cli.known[1]) - 1) :
               LessBytes(StringBytes(cli.known[1][k]),
                         StringBytes(cli.known[1][k + 1]))

\* C24 as stated: New returns a hash object and ok = true for each of the
\* 16 names of the README and (nil, false) for every other name, and
\* KnownHashNames returns the 16 names sorted without duplicates.
C24_AsStated ==
    cli.pc = "factory" =>
        /\ cli.made # << >> =>
               /\ cli.made[1].ok <=> cli.hashAlgorithm \in ReadmeNames
               /\ cli.made[1].hash = nilHash <=> ~cli.made[1].ok
        /\ KnownNamesAsListed

\* C24, amended: the names registered are exactly the 16 of the README;
\* New returns a hash object and ok = true exactly for the names it looks
\* up among them - the name as given in version 4.2.0, the trimmed and
\* lower-cased name in version 3.0.0 - and (nil, false) for all others;
\* KnownHashNames returns the 16 names sorted without duplicates.
C24_Registry ==
    cli.pc = "factory" =>
        /\ cli.made # << >> =>
               LET accepted ==
                       ReadmeNames
                           \cup (IF cli.version = "V3"
                                 THEN ReadmeNamesRespelled ELSE { })
               IN  /\ cli.made[1].ok <=> cli.hashAlgorithm \in accepted
                   /\ cli.made[1].hash = nilHash <=> ~cli.made[1].ok
                   /\ cli.made[1].ok =>
                          cli.made[1].hash.algorithm \in ReadmeNames
        /\ KnownNamesAsListed

\* New has made the hash object of sha2-512_256 and refusing another name
\* is possible in the same version; the names have been listed.
C24_Witness ==
    /\ cli.pc = "factory"
    /\ cli.version = "V4"
    /\ cli.hashAlgorithm = "sha2-512_256"
    /\ cli.made # << >>
    /\ cli.made[1].ok
    /\ cli.known # << >>
    /\ Len(cli.known[1]) = 16

\* --------------------------------------------------------------- C29 ----

\* C29: the digest of every registered algorithm has a length that is a
\* multiple of 4, so the Z85 printer's call of Encode on a digest returns
\* no error, the discarded error hides nothing, and the Z85 text of a
\* digest of N bytes has N + N/4 characters.
C29_DigestLengths ==
    /\ \A n \in RegisteredNames :
           /\ hashAlgorithmNameToFunction(n).size % 4 = 0
           /\ hashAlgorithmNameToFunction(n).size > 0
    /\ \A r \in Finished :
           /\ r.arg.len = cli.hash.size
           /\ r.err = NoError
           /\ Len(r.str) = r.arg.len + r.arg.len \div 4
    /\ cli.pc = "printed" =>
           /\ stdout = results[1].str \o << 10 >>
           /\ Len(stdout) = cli.hash.size + cli.hash.size \div 4 + 1
           /\ stderr = << >>

\* The digest of sha1, 20 bytes, was printed as 25 characters and a line
\* feed.
C29_Witness ==
    /\ cli.pc = "printed"
    /\ cli.hash.algorithm = "sha1"
    /\ Len(stdout) = 26

\* --------------------------------------------------------------- C25 ----

\* C25: when both 'lower' and 'upper' are given, the check of the command
\* line fails with return code 1; nothing is hashed and nothing is printed.
C25_LowerUpperExclusive ==
    (/\ "check" \in cli.done
     /\ { "lower", "upper" } \subseteq cli.line.bools) =>
        /\ cli.pc = "exit"
        /\ cli.stage = "check"
        /\ cli.rc = rcParameterError
        /\ stderr # << >>
        /\ stdout = << >>
        /\ cli.hashValue = << >>
        /\ cli.written = << >>
        /\ ~cli.opened

\* The check has refused a command line for its two cases alone.
C25_Witness ==
    /\ "check" \in cli.done
    /\ { "lower", "upper" } \subseteq cli.line.bools
    /\ cli.line.source = Opt("x")
    /\ cli.rc = rcParameterError
    /\ Len(stderr) = 4
    /\ stderr[2] = "Specify either 'lower' or 'upper'"

\* --------------------------------------------------------------- C22 ----

\* The program has ended.
Ended == cli.pc \in { "exit", "printed" }

\* C22: the return code is 0 exactly when the processing succeeded, 1 for
\* every error in the command line (an option that is not defined, a failed
\* check, a hash name that is not known), 2 for every error while the data
\* is hashed, and nothing else.
C22_ReturnCodes ==
    (cli.line.version \in { "V1", "V3" } /\ Ended) =>
        /\ cli.rc \in { rcOK, rcParameterError, rcProcessingError }
        /\ cli.rc = rcOK <=> cli.pc = "printed"
        /\ cli.stage \in { "parse", "check", "hash name" } =>
               cli.rc = rcParameterError
        /\ cli.stage = "hashing" => cli.rc = rcProcessingError

\* --------------------------------------------------------------- C30 ----

\* hashData has returned.
HashDataReturned ==
    \/ cli.stage = "hashing"
    \/ cli.pc \in { "printResult", "printEncoded", "hexPrint", "base32Print",
                    "base64Print", "print", "printed" }

\* C30: after a successful check hashData opens the file exactly when
\* 'file' was given.  With 'source' or 'hexsource', sourceBytes is not empty
\* and the hash is that of exactly those bytes; with 'file', sourceBytes is
\* empty and the hash is that of the file's contents, or the error of
\* reading is returned with no hash value.
C30_HashedData ==
    HashDataReturned =>
        LET l == cli.line
            f == cli.flags
        IN  /\ cli.opened <=> l.file.given
            /\ l.source.given =>
                   /\ cli.written = << 120 >>
                   /\ l.version = "V3" => f.sourceBytes = cli.written
            /\ l.hexsource.given =>
                   /\ cli.written = << 97, 98 >>
                   /\ f.sourceBytes = cli.written
            /\ l.file.given =>
                   /\ f.sourceBytes = << >>
                   /\ cli.written \in { o.contents : o \in FileOutcomes }
            /\ cli.stage = "hashing" =>
                   /\ l.file.given
                   /\ cli.hashValue = << >>
                   /\ cli.rc = rcProcessingError
                   /\ stdout = << >>
                   /\ Len(stderr) = 2
            /\ cli.stage # "hashing" =>
                   /\ cli.hashValue = WriteAndSum(cli.hash, cli.written)
                   /\ Len(cli.hashValue) = cli.hash.size
                   /\ stderr = << >>

\* The decoded hex source "6162" was hashed and the value printed.
C30_Witness ==
    /\ cli.pc = "printed"
    /\ cli.line.hexsource = Opt("6162")
    /\ cli.written = << 97, 98 >>
    /\ ~cli.opened
    /\ Len(cli.hashValue) = 16

\* A file that could not be read: the error and no hash value.
C30_ReadError ==
    /\ cli.stage = "hashing"
    /\ cli.line.version = "V3"
    /\ cli.opened
    /\ stderr[2] = "Error hashing data: error reading file 'f': "
                       \o "read f: input/output error"

\* --------------------------------------------------------------- C21 ----

C21_LowerWitness ==
    /\ cli.line.version = "V3"
    /\ cli.pc = "printed"
    /\ ~cli.line.encoding.given
    /\ cli.line.bools = { "lower" }
    /\ \E k \in DOMAIN stdout : stdout[k] \in 97..102

====
